---- MODULE Spec2Model ----
(***************************************************************************)
(* Model of convert.py: process_image (canvas fitting, fixed palette,      *)
(* quantization, orientation routing, save) and process_folder (the batch  *)
(* loop with its per-file try/except).                                     *)
(*                                                                         *)
(* Sizes are pairs <<width, height>>.  Python floats are IEEE-754 doubles; *)
(* they are modelled exactly as a 53-bit mantissa held in three limbs      *)
(* (17 + 18 + 18 bits) and the exponent of the mantissa's last bit, with   *)
(* round-to-nearest-even after every operation, as CPython computes them.  *)
(***************************************************************************)
EXTENDS Integers, Sequences, FiniteSets, TLC

\* ---------------------------------------------------------------- bounds
\* Source images handed directly to process_image have sides in 1..MaxDim.
MaxDim == 20
\* A folder listing holds at most MaxFiles entries.
MaxFiles == 2

\* ------------------------------------------------- IEEE-754 double model
\* A positive double is [a, b, c, e]: mantissa a * 2^36 + b * 2^18 + c with
\* 2^16 <= a < 2^17 and b, c < 2^18, value mantissa * 2^e.  The operators are
\* exact for integer operands below 2^12, which covers 800, 480 and MaxDim.
Limb == 2 ^ 18

\* The element of a one-element set; used as  The({ e(x) : x \in {v} })  to
\* name a value that is computed once.
The(S) == CHOOSE v \in S : TRUE

BitLen(x) == CHOOSE k \in 0..30 : (k = 0 \/ 2 ^ (k - 1) <= x) /\ x < 2 ^ k

\* Round to nearest, ties to even, given the first dropped bit (guard) and
\* whether anything nonzero was dropped after it (sticky).
FloatRound(a, b, c, e, guard, sticky) ==
    IF guard = 1 /\ (sticky \/ c % 2 = 1)
    THEN IF c + 1 < Limb THEN [a |-> a, b |-> b, c |-> c + 1, e |-> e]
         ELSE IF b + 1 < Limb THEN [a |-> a, b |-> b + 1, c |-> 0, e |-> e]
         ELSE IF a + 1 < 2 ^ 17 THEN [a |-> a + 1, b |-> 0, c |-> 0, e |-> e]
         ELSE [a |-> 2 ^ 16, b |-> 0, c |-> 0, e |-> e + 1]
    ELSE [a |-> a, b |-> b, c |-> c, e |-> e]

\* Drop the last s bits of x[1] * 2^36 + x[2] * 2^18 + x[3] and round.
FloatShift(x, e, stickyIn, s) ==
    The({ FloatRound(x[1] \div p,
                     ((x[1] % p) * Limb + x[2]) \div p,
                     ((x[2] % p) * Limb + x[3]) \div p,
                     e + s,
                     IF s = 0 THEN 0 ELSE (x[3] % p) \div (2 ^ (s - 1)),
                     stickyIn \/ (s > 0 /\ (x[3] % p) % (2 ^ (s - 1)) # 0))
          : p \in {2 ^ s} })

\* Bring x1 * 2^36 + x2 * 2^18 + x3 (x1 of 17..30 bits) back to 53 bits.
FloatNormalize(x1, x2, x3, e, stickyIn) ==
    The({ The({ FloatShift(x, e, stickyIn, s) : s \in {BitLen(x[1]) - 17} })
          : x \in {<<x1, x2, x3>>} })

\* The remainders of the long division of nn by d, one 18-bit limb at a time.
DivRemainders(nn, d) ==
    The({ The({ The({ <<r0, r1, r2, (r2 * Limb) % d>>
                      : r2 \in {(r1 * Limb) % d} })
                : r1 \in {(r0 * Limb) % d} })
          : r0 \in {nn % d} })

\* n / d for Python ints n, d >= 1: true division, correctly rounded.  The
\* numerator is first doubled until the quotient is at least 1.
FloatDiv(n, d) ==
    The({ The({ FloatNormalize(((n * 2 ^ j) \div d) * Limb + (r[1] * Limb) \div d,
                               (r[2] * Limb) \div d,
                               (r[3] * Limb) \div d,
                               0 - 54 - j,
                               r[4] # 0)
                : r \in {DivRemainders(n * 2 ^ j, d)} })
          : j \in {CHOOSE k \in 0..13 :
                       n * 2 ^ k >= d /\ (k = 0 \/ n * 2 ^ (k - 1) < d)} })

\* n * f for a Python int n >= 1 and a float f: the exact product, rounded.
FloatMulInt(n, f) ==
    The({ The({ The({ FloatNormalize(c2, c1 % Limb, c0 % Limb, f.e, FALSE)
                      : c2 \in {n * f.a + c1 \div Limb} })
                : c1 \in {n * f.b + c0 \div Limb} })
          : c0 \in {n * f.c} })

FloatGT(x, y) ==
    \/ x.e > y.e
    \/ x.e = y.e /\ x.a > y.a
    \/ x.e = y.e /\ x.a = y.a /\ x.b > y.b
    \/ x.e = y.e /\ x.a = y.a /\ x.b = y.b /\ x.c > y.c

\* max(x, y): Python keeps the first argument unless the second is greater.
FloatMax(x, y) ==
    The({ IF FloatGT(v, u) THEN v ELSE u : u \in {x}, v \in {y} })

\* int(f): truncation toward zero (f is positive here, below 2^30).
FloatToInt(f) ==
    The({ IF sh >= 53 THEN 0
          ELSE IF sh >= 36 THEN f.a \div 2 ^ (sh - 36)
          ELSE f.a * 2 ^ (36 - sh) + f.b \div 2 ^ (sh - 18)
          : sh \in {0 - f.e} })

\* int(n * f)
IntOfProduct(n, f) ==
    The({ FloatToInt(g) : g \in {FloatMulInt(n, f)} })

\* ------------------------------------------------------------- constants
LandscapeSize == <<800, 480>>
PortraitSize == <<480, 800>>
White == <<255, 255, 255>>
Black == <<0, 0, 0>>

\* display_direction=None, and the value of a name that was never bound.
NoDirection == "<None>"
Unbound == <<0, 0>>

\* Python truthiness of display_direction: None and '' are false.
Truthy(d) == d # NoDirection /\ d # ""

\* ------------------------------------------------------------ palette
\* Python's  t * n  for a tuple t.
Repeat(t, n) == [i \in 1..(Len(t) * n) |-> t[((i - 1) % Len(t)) + 1]]

WarmPalette ==
    << 0, 0, 0,
       255, 255, 255,
       255, 183, 176,
       255, 105, 97,
       255, 87, 51,
       255, 195, 160,
       255, 160, 122 >> \o Repeat(<<0, 0, 0>>, 249)

DefaultPaletteShifted ==
    <<255, 0, 0, 0, 255, 255, 255, 0, 255, 0, 0, 0, 255, 255, 0, 0>>
        \o Repeat(<<0, 0, 0>>, 250)

DefaultPalette ==
    <<0, 0, 0, 255, 255, 255, 0, 255, 0, 0, 0, 255, 255, 0, 0, 255>>
        \o Repeat(<<0, 0, 0>>, 250)

\* The buffer handed to putpalette.
PaletteData(w) == IF w THEN WarmPalette ELSE DefaultPalette

\* putpalette keeps the whole RGB triples of the buffer; entries are
\* numbered from 0 as in the palette image.
PaletteSize(buf) == Len(buf) \div 3

PaletteEntry(buf, i) == <<buf[3 * i + 1], buf[3 * i + 2], buf[3 * i + 3]>>

PaletteColours(buf) == {PaletteEntry(buf, i) : i \in 0..(PaletteSize(buf) - 1)}

\* ------------------------------------------------- process_image, pure parts
TargetSizeAutoOnly(width, height, direction) ==
    IF width > height THEN LandscapeSize ELSE PortraitSize

TargetSizeTie(width, height, direction) ==
    IF Truthy(direction)
    THEN IF direction = "landscape" THEN LandscapeSize ELSE PortraitSize
    ELSE IF width >= height THEN LandscapeSize ELSE PortraitSize

\* Lines 10-20: the canvas, from the direction or else from the source shape.
TargetSize(width, height, direction) ==
    IF Truthy(direction)
    THEN IF direction = "landscape" THEN LandscapeSize ELSE PortraitSize
    ELSE IF width > height THEN LandscapeSize ELSE PortraitSize

\* Line 24: max(target_width / width, target_height / height)
ScaleRatio(width, height, target) ==
    FloatMax(FloatDiv(target[1], width), FloatDiv(target[2], height))

\* Lines 25-26: <<resized_width, resized_height>>
ResizedSize(width, height, target) ==
    The({ <<IntOfProduct(width, scale_ratio), IntOfProduct(height, scale_ratio)>>
          : scale_ratio \in {ScaleRatio(width, height, target)} })

ScaleFitNoCanvas(width, height, target) ==
    The({ [resized |-> resized, offset |-> <<0, 0>>, size |-> resized]
          : resized \in {ResizedSize(width, height, target)} })

\* Lines 24-32: resize by the larger of the two ratios, then paste at
\* (left, top) on a new white canvas of the target size.  // is floor
\* division, as \div is.
ScaleFit(width, height, target) ==
    The({ [resized |-> resized,
           offset  |-> <<(target[1] - resized[1]) \div 2,
                         (target[2] - resized[2]) \div 2>>,
           size    |-> target]
          : resized \in {ResizedSize(width, height, target)} })

\* Lines 35-44: both branches set box = (0, 0, width, height); the padding
\* tuple they compute is never read.  crop(box) has the size of the box and
\* ImageOps.pad returns an image of the size it is asked for.
CutFit(width, height, target) ==
    LET box == <<0, 0, width, height>>
    IN  [resized |-> <<box[3] - box[1], box[4] - box[2]>>,
         offset  |-> <<0, 0>>,
         size    |-> target]

\* The part of the canvas the pasted image leaves white: the paste covers
\* columns left .. left + resized_width - 1 and rows top .. top + resized_height - 1.
BackgroundVisible(fit) ==
    \/ fit.offset[1] > 0
    \/ fit.offset[2] > 0
    \/ fit.offset[1] + fit.resized[1] < fit.size[1]
    \/ fit.offset[2] + fit.resized[2] < fit.size[2]

OutputFolderTie(width, height, landscape, portrait) ==
    IF width >= height THEN landscape ELSE portrait

\* Lines 68-71.
OutputFolder(width, height, landscape, portrait) ==
    IF width > height THEN landscape ELSE portrait

\* ---------------------------------------------------------------- file names
\* A file name is a sequence of one-character strings.
UpperCase ==
    <<"A", "B", "C", "D", "E", "F", "G", "H", "I", "J", "K", "L", "M",
      "N", "O", "P", "Q", "R", "S", "T", "U", "V", "W", "X", "Y", "Z">>

LowerCase ==
    <<"a", "b", "c", "d", "e", "f", "g", "h", "i", "j", "k", "l", "m",
      "n", "o", "p", "q", "r", "s", "t", "u", "v", "w", "x", "y", "z">>

LowerChar(ch) ==
    IF \E i \in 1..26 : UpperCase[i] = ch
    THEN LowerCase[CHOOSE i \in 1..26 : UpperCase[i] = ch]
    ELSE ch

\* str.lower()
Lower(name) == [i \in 1..Len(name) |-> LowerChar(name[i])]

\* str.endswith(suffix)
EndsWith(name, suffix) ==
    /\ Len(name) >= Len(suffix)
    /\ SubSeq(name, Len(name) - Len(suffix) + 1, Len(name)) = suffix

ImageSuffixes ==
    { <<".", "b", "m", "p">>, <<".", "j", "p", "g">>,
      <<".", "j", "p", "e", "g">>, <<".", "p", "n", "g">> }

\* Line 100: the extension filter.
Accepted(name) == \E suffix \in ImageSuffixes : EndsWith(Lower(name), suffix)

\* os.path.splitext(name)[0]: cut at the last dot, unless only dots precede it.
SplitExtRoot(name) ==
    LET dots == {i \in 1..Len(name) : name[i] = "."}
    IN  IF dots = {} THEN name
        ELSE LET last == CHOOSE i \in dots : \A k \in dots : k <= i
             IN  IF \E k \in 1..(last - 1) : name[k] # "."
                 THEN SubSeq(name, 1, last - 1)
                 ELSE name

\* Lines 74-75: the output path, as <<folder, file name>>.
OutputFilename(folder, filename) ==
    <<folder, SplitExtRoot(filename) \o <<"_output.bmp">> >>

\* Lines 89-91.
LandscapeFolder(w) == IF w THEN "dithered-landscape-warm" ELSE "dithered-landscape"

PortraitFolder(w) == IF w THEN "dithered-portrait-warm" ELSE "dithered-portrait"

\* --------------------------------------------------------------------- state
VARIABLES
    entry,                   \* "direct": process_image is called by itself;
                             \* "folder": process_folder drives it
    \* process_folder
    is_dir,                  \* os.path.isdir(folder_path)
    folder_warm,             \* process_folder's warm argument
    files,                   \* os.listdir: [name, data] per entry; data is the
                             \* decoded size, or Unbound when decoding fails
    file_idx,                \* entries of the listing already consumed
    fpc,                     \* position in process_folder
    created,                 \* folders made by os.makedirs
    opened,                  \* listing indices handed to Image.open, in order
    reported,                \* listing indices of 'Error processing' lines
    invalid_msgs,            \* 'is not a valid directory' lines printed
    finished_msgs,           \* 'All images processed' lines printed
    written,                 \* files saved: [file, path, folder, size]
    \* process_image
    pc,                      \* position in process_image
    filename,                \* input_image.filename
    image_size,              \* input_image.size
    warm, display_direction, display_mode,
    output_folder_landscape, output_folder_portrait,
    width, height,
    target,                  \* <<target_width, target_height>>
    fit,                     \* resized size, paste offset, size of resized_image
    pal_image,               \* the palette buffer of pal_image
    quantized_image,         \* size of quantized_image
    pixel,                   \* colour of an arbitrary pixel of quantized_image
    output_folder, output_filename

folderVars ==
    <<is_dir, folder_warm, files, file_idx, fpc, created, opened, reported,
      invalid_msgs, finished_msgs>>

argVars ==
    <<filename, image_size, warm, display_direction, display_mode,
      output_folder_landscape, output_folder_portrait>>

localVars ==
    <<width, height, target, fit, pal_image, quantized_image, pixel,
      output_folder, output_filename>>

vars == <<entry, folderVars, written, pc, argVars, localVars>>

NoFit == [resized |-> Unbound, offset |-> <<0, 0>>, size |-> Unbound]

\* The locals of process_image before its first statement.
FreshLocals ==
    /\ width = 0
    /\ height = 0
    /\ target = Unbound
    /\ fit = NoFit
    /\ pal_image = <<>>
    /\ quantized_image = Unbound
    /\ pixel = <<>>
    /\ output_folder = ""
    /\ output_filename = <<>>

\* No call of process_image is active.
NoCall ==
    /\ pc = "idle"
    /\ filename = <<>>
    /\ image_size = Unbound
    /\ warm = FALSE
    /\ display_direction = NoDirection
    /\ display_mode = "scale"
    /\ output_folder_landscape = ""
    /\ output_folder_portrait = ""
    /\ FreshLocals

\* The frame of process_image is gone once the call is over.
EndCall ==
    /\ pc' = "idle"
    /\ filename' = <<>>
    /\ image_size' = Unbound
    /\ warm' = FALSE
    /\ display_direction' = NoDirection
    /\ display_mode' = "scale"
    /\ output_folder_landscape' = ""
    /\ output_folder_portrait' = ""
    /\ width' = 0
    /\ height' = 0
    /\ target' = Unbound
    /\ fit' = NoFit
    /\ pal_image' = <<>>
    /\ quantized_image' = Unbound
    /\ pixel' = <<>>
    /\ output_folder' = ""
    /\ output_filename' = <<>>

\* ------------------------------------------------------------------- inputs
Directions == {NoDirection, "", "landscape", "portrait"}

Modes == {"scale", "cut", "pad"}

DirectFilename == <<"a", ".", "P", "N", "G">>

FileNames ==
    { <<"a", ".", "P", "N", "G">>, <<"b", ".", "j", "p", "g">>,
      <<"c", ".", "t", "x", "t">> }

\* What Image.open finds in a file: nothing it can decode, or a landscape, a
\* portrait or a square image.
FileData == {Unbound, <<2, 1>>, <<1, 2>>, <<1, 1>>}

\* Listings: at most MaxFiles entries with distinct names.
Listings ==
    UNION { { l \in [1..n -> [name : FileNames, data : FileData]] :
                \A i, j \in 1..n : i # j => l[i].name # l[j].name }
            : n \in 0..MaxFiles }

DirectInit ==
    /\ entry = "direct"
    /\ is_dir = FALSE
    /\ folder_warm = FALSE
    /\ files = <<>>
    /\ file_idx = 0
    /\ fpc = "idle"
    /\ created = {}
    /\ opened = <<>>
    /\ reported = <<>>
    /\ invalid_msgs = 0
    /\ finished_msgs = 0
    /\ written = <<>>
    /\ pc = "start"
    /\ filename = DirectFilename
    /\ image_size \in (1..MaxDim) \X (1..MaxDim)
    /\ warm \in BOOLEAN
    /\ display_direction \in Directions
    /\ display_mode \in Modes
    /\ output_folder_landscape = "landscape"
    /\ output_folder_portrait = "portrait"
    /\ FreshLocals

FolderInit ==
    /\ entry = "folder"
    /\ is_dir \in BOOLEAN
    /\ folder_warm \in BOOLEAN
    /\ files \in (IF is_dir THEN Listings ELSE {<<>>})
    /\ file_idx = 0
    /\ fpc = "check"
    /\ created = {}
    /\ opened = <<>>
    /\ reported = <<>>
    /\ invalid_msgs = 0
    /\ finished_msgs = 0
    /\ written = <<>>
    /\ NoCall

Init == DirectInit \/ FolderInit

\* ------------------------------------------------------------ process_image
\* Lines 7-20.
ChooseTarget ==
    /\ pc = "start"
    /\ width' = image_size[1]
    /\ height' = image_size[2]
    /\ target' = TargetSize(image_size[1], image_size[2], display_direction)
    /\ pc' = "fit"
    /\ UNCHANGED <<entry, folderVars, written, argVars, fit, pal_image,
                   quantized_image, pixel, output_folder, output_filename>>

\* Lines 22-44.  With any other display_mode neither branch runs and
\* resized_image stays unbound.
FitCanvas ==
    /\ pc = "fit"
    /\ fit' = IF display_mode = "scale" THEN ScaleFit(width, height, target)
              ELSE IF display_mode = "cut" THEN CutFit(width, height, target)
              ELSE fit
    /\ pc' = "palette"
    /\ UNCHANGED <<entry, folderVars, written, argVars, width, height, target,
                   pal_image, quantized_image, pixel, output_folder,
                   output_filename>>

\* Lines 47-62.
PutPalette ==
    /\ pc = "palette"
    /\ pal_image' = PaletteData(warm)
    /\ pc' = "quantize"
    /\ UNCHANGED <<entry, folderVars, written, argVars, width, height, target,
                   fit, quantized_image, pixel, output_folder, output_filename>>

\* Line 65.  quantize() gives every pixel the index of a palette entry, which
\* one depending on the picture and on the dithering, and convert('RGB')
\* replaces the index by that entry; the size is kept.  Reading the unbound
\* resized_image raises.
Quantize ==
    /\ pc = "quantize"
    /\ IF fit.size = Unbound
       THEN /\ pc' = "raised"
            /\ UNCHANGED <<quantized_image, pixel>>
       ELSE /\ pixel' \in PaletteColours(pal_image)
            /\ quantized_image' = fit.size
            /\ pc' = "route"
    /\ UNCHANGED <<entry, folderVars, written, argVars, width, height, target,
                   fit, pal_image, output_folder, output_filename>>

\* Lines 68-75.
RouteOutput ==
    /\ pc = "route"
    /\ output_folder' = OutputFolder(width, height, output_folder_landscape,
                                     output_folder_portrait)
    /\ output_filename' =
           OutputFilename(OutputFolder(width, height, output_folder_landscape,
                                       output_folder_portrait), filename)
    /\ pc' = "save"
    /\ UNCHANGED <<entry, folderVars, written, argVars, width, height, target,
                   fit, pal_image, quantized_image, pixel>>

\* Lines 78-80.  The write succeeds or raises (permissions, disk full).
Save ==
    /\ pc = "save"
    /\ \/ /\ written' = Append(written, [file   |-> file_idx + 1,
                                         path   |-> output_filename,
                                         folder |-> output_folder,
                                         size   |-> quantized_image])
          /\ pc' = "done"
       \/ /\ pc' = "raised"
          /\ UNCHANGED written
    /\ UNCHANGED <<entry, folderVars, argVars, localVars>>

\* ----------------------------------------------------------- process_folder
DirCheckNoReturn(isdir) == "makedirs"

\* Lines 84-86: where process_folder goes after the directory test.
DirCheck(isdir) == IF isdir THEN "makedirs" ELSE "returned"

AfterExceptPropagate(i) == [fpc |-> "aborted", file_idx |-> i]

\* Lines 106-107: the handler ends the iteration; the loop goes on with the
\* next entry of the listing.
AfterExcept(i) == [fpc |-> "loop", file_idx |-> i + 1]

\* Lines 84-86.
CheckFolder ==
    /\ fpc = "check"
    /\ invalid_msgs' = IF is_dir THEN invalid_msgs ELSE invalid_msgs + 1
    /\ fpc' = DirCheck(is_dir)
    /\ UNCHANGED <<entry, is_dir, folder_warm, files, file_idx, created, opened,
                   reported, finished_msgs, written, pc, argVars, localVars>>

\* Lines 89-93.
MakeDirs ==
    /\ fpc = "makedirs"
    /\ created' = created \cup {LandscapeFolder(folder_warm),
                                PortraitFolder(folder_warm)}
    /\ fpc' = "loop"
    /\ UNCHANGED <<entry, is_dir, folder_warm, files, file_idx, opened, reported,
                   invalid_msgs, finished_msgs, written, pc, argVars, localVars>>

\* Lines 96-101: the next entry of the listing is skipped or goes to the try.
NextFile ==
    /\ fpc = "loop"
    /\ file_idx < Len(files)
    /\ IF Accepted(files[file_idx + 1].name)
       THEN fpc' = "open" /\ UNCHANGED file_idx
       ELSE file_idx' = file_idx + 1 /\ UNCHANGED fpc
    /\ UNCHANGED <<entry, is_dir, folder_warm, files, created, opened, reported,
                   invalid_msgs, finished_msgs, written, pc, argVars, localVars>>

\* Lines 103-105: Image.open raises on a file it cannot decode; otherwise
\* process_image is called with the defaults for direction, mode and dither.
OpenImage ==
    /\ fpc = "open"
    /\ opened' = Append(opened, file_idx + 1)
    /\ IF files[file_idx + 1].data = Unbound
       THEN /\ fpc' = "except"
            /\ UNCHANGED <<pc, argVars>>
       ELSE /\ fpc' = "in_image"
            /\ pc' = "start"
            /\ filename' = files[file_idx + 1].name
            /\ image_size' = files[file_idx + 1].data
            /\ warm' = folder_warm
            /\ display_direction' = NoDirection
            /\ display_mode' = "scale"
            /\ output_folder_landscape' = LandscapeFolder(folder_warm)
            /\ output_folder_portrait' = PortraitFolder(folder_warm)
    /\ UNCHANGED <<entry, is_dir, folder_warm, files, file_idx, created, reported,
                   invalid_msgs, finished_msgs, written, localVars>>

\* Lines 104-105: process_image returned and the with block closes the image.
CloseImage ==
    /\ fpc = "in_image"
    /\ pc = "done"
    /\ fpc' = "loop"
    /\ file_idx' = file_idx + 1
    /\ EndCall
    /\ UNCHANGED <<entry, is_dir, folder_warm, files, created, opened, reported,
                   invalid_msgs, finished_msgs, written>>

\* Lines 106-107: whatever Image.open or process_image raised is printed.
HandleException ==
    /\ \/ fpc = "except"
       \/ fpc = "in_image" /\ pc = "raised"
    /\ reported' = Append(reported, file_idx + 1)
    /\ fpc' = AfterExcept(file_idx).fpc
    /\ file_idx' = AfterExcept(file_idx).file_idx
    /\ EndCall
    /\ UNCHANGED <<entry, is_dir, folder_warm, files, created, opened,
                   invalid_msgs, finished_msgs, written>>

\* Line 109.
FinishFolder ==
    /\ fpc = "loop"
    /\ file_idx = Len(files)
    /\ finished_msgs' = finished_msgs + 1
    /\ fpc' = "finished"
    /\ UNCHANGED <<entry, is_dir, folder_warm, files, file_idx, created, opened,
                   reported, invalid_msgs, written, pc, argVars, localVars>>

Next ==
    \/ ChooseTarget
    \/ FitCanvas
    \/ PutPalette
    \/ Quantize
    \/ RouteOutput
    \/ Save
    \/ CheckFolder
    \/ MakeDirs
    \/ NextFile
    \/ OpenImage
    \/ CloseImage
    \/ HandleException
    \/ FinishFolder

Spec == Init /\ [][Next]_vars

\* process_folder alone.  The program is one sequential thread, so a step
\* that can be taken is taken.
FolderSpec == FolderInit /\ [][Next]_vars /\ WF_vars(Next)

\* ------------------------------------------------------------------ claims
Fitted == pc \in {"palette", "quantize", "route", "save", "done", "raised"}

\* C1: under the scale and the cut policy the fitted canvas resized_image, the
\* quantized image and the image that is saved are exactly target_width x
\* target_height, which is 800x480 or 480x800, whatever the source's shape.
FittedCanvasExact ==
    (Fitted /\ display_mode \in {"scale", "cut"}) =>
        /\ target \in {LandscapeSize, PortraitSize}
        /\ fit.size = target
        /\ quantized_image \in {Unbound, target}
        /\ pc \in {"route", "save", "done"} => quantized_image = target
        /\ pc = "done" => written[Len(written)].size = target

\* A saved scale-fitted image whose resized source is not of the canvas's size.
FittedCanvasWitness ==
    /\ pc = "done"
    /\ display_mode = "scale"
    /\ fit.resized # target
    /\ written[Len(written)].size = target
    /\ width = height

\* C2: the buffer handed to putpalette holds exactly 256 RGB triples, that is
\* 768 channel values, for the warm and for the default palette.
PaletteBufferFull ==
    pal_image # <<>> => Len(pal_image) = 768 /\ PaletteSize(pal_image) = 256

WarmColours ==
    << <<0, 0, 0>>, <<255, 255, 255>>, <<255, 183, 176>>, <<255, 105, 97>>,
       <<255, 87, 51>>, <<255, 195, 160>>, <<255, 160, 122>> >>

DefaultColours ==
    << <<0, 0, 0>>, <<255, 255, 255>>, <<0, 255, 0>>, <<0, 0, 255>>,
       <<255, 0, 0>> >>

Curated(w) == IF w THEN WarmColours ELSE DefaultColours

Range(seq) == {seq[k] : k \in 1..Len(seq)}

\* C3: the palette is the curated prefix (five colours, or the seven warm
\* ones) followed by black filler only.
PalettePrefixThenBlack ==
    pal_image # <<>> =>
        /\ \A i \in 0..(Len(Curated(warm)) - 1) :
               PaletteEntry(pal_image, i) = Curated(warm)[i + 1]
        /\ \A i \in Len(Curated(warm))..(PaletteSize(pal_image) - 1) :
               PaletteEntry(pal_image, i) = Black

\* C4: the output folder is the landscape folder exactly when width > height
\* and the portrait folder otherwise (so for squares), whatever the direction,
\* the fit policy and the palette.
RoutingByShape ==
    output_folder # "" =>
        /\ output_folder \in {output_folder_landscape, output_folder_portrait}
        /\ output_folder = output_folder_landscape <=> width > height
        /\ output_folder = output_folder_portrait <=> ~(width > height)
        /\ output_filename[1] = output_folder

\* A square source sent to the portrait folder although the canvas was forced
\* to landscape.
RoutingWitness ==
    /\ pc = "done"
    /\ width = height
    /\ display_direction = "landscape"
    /\ output_folder = output_folder_portrait

AutoTarget == IF width > height THEN LandscapeSize ELSE PortraitSize

DirectedTarget ==
    IF display_direction = "landscape" THEN LandscapeSize ELSE PortraitSize

\* C5 as stated: without a direction the canvas follows the source's shape;
\* with any direction supplied, the direction alone decides.
TargetByDirectionWhenSupplied ==
    target # Unbound =>
        target = IF display_direction = NoDirection THEN AutoTarget
                 ELSE DirectedTarget

\* C5, amended: without a direction, or with an empty one, the canvas follows
\* the source's shape (800x480 if width > height, else 480x800); a non-empty
\* direction alone decides (800x480 for 'landscape', 480x800 otherwise).
TargetByTruthyDirection ==
    target # Unbound =>
        target = IF display_direction \in {NoDirection, ""} THEN AutoTarget
                 ELSE DirectedTarget

\* An empty direction with a landscape source: the canvas is 800x480.
TargetWitness ==
    /\ pc = "done"
    /\ display_direction = ""
    /\ width > height
    /\ target = LandscapeSize

Count(seq, x) == Cardinality({k \in 1..Len(seq) : seq[k] = x})

WrittenFiles == [k \in 1..Len(written) |-> written[k].file]

\* Every accepted entry is opened at most once and, once the loop is past it,
\* was opened exactly once and ended in exactly one of an error line and a
\* saved file; an undecodable one ends in the error line; skipped entries
\* leave no trace.
BatchAccounting ==
    \A i \in 1..Len(files) :
        IF Accepted(files[i].name)
        THEN /\ Count(opened, i) <= 1
             /\ Count(reported, i) + Count(WrittenFiles, i) <= Count(opened, i)
             /\ i <= file_idx =>
                    /\ Count(opened, i) = 1
                    /\ Count(reported, i) + Count(WrittenFiles, i) = 1
             /\ files[i].data = Unbound => Count(WrittenFiles, i) = 0
        ELSE Count(opened, i) + Count(reported, i) + Count(WrittenFiles, i) = 0

\* C6: a failing file never aborts the batch: every accepted file is tried
\* once, a failure gives one error line, a success gives its output, and the
\* loop of a valid folder always reaches 'All images processed'.
FailureIsolation ==
    /\ [](entry = "folder" => BatchAccounting)
    /\ [](fpc = "finished" => file_idx = Len(files) /\ finished_msgs = 1)
    /\ (is_dir ~> fpc = "finished")

\* The batch finished although its first file failed, and the second file was
\* still converted.
FailureIsolationWitness ==
    /\ fpc = "finished"
    /\ reported = <<1>>
    /\ WrittenFiles = <<2>>

\* C7: for a path that is not a directory the error is printed once and
\* nothing else happens: no folder made, no file opened, nothing written, no
\* 'All images processed'.
InvalidPathAborts ==
    (entry = "folder" /\ ~is_dir) =>
        /\ invalid_msgs <= 1
        /\ fpc \in {"check", "returned"}
        /\ fpc = "returned" <=> invalid_msgs = 1
        /\ created = {}
        /\ opened = <<>>
        /\ reported = <<>>
        /\ written = <<>>
        /\ finished_msgs = 0
        /\ pc = "idle"

InvalidPathWitness ==
    /\ entry = "folder"
    /\ ~is_dir
    /\ fpc = "returned"
    /\ invalid_msgs = 1

\* C8: the quantized image has the size of the fitted one and each of its
\* pixels is a palette entry: black, white, green, blue or red with the
\* default palette, one of the seven warm colours (black among them) with the
\* warm one.
QuantizedWithinPalette ==
    pixel # <<>> =>
        /\ quantized_image = fit.size
        /\ \E i \in 0..(PaletteSize(pal_image) - 1) :
               PaletteEntry(pal_image, i) = pixel
        /\ pixel \in Range(Curated(warm)) \cup (IF warm THEN {Black} ELSE {})

\* A saved image of the default palette with a red pixel.
QuantizedWitness ==
    /\ pc = "done"
    /\ ~warm
    /\ pixel = <<255, 0, 0>>
    /\ written # <<>>

\* C9: under the scale policy the resized image covers the canvas: both sides
\* at least the target's, one of them equal, offsets not positive, and no
\* white background left visible.
CoverFit ==
    (display_mode = "scale" /\ fit.size # Unbound) =>
        /\ fit.resized[1] >= target[1]
        /\ fit.resized[2] >= target[2]
        /\ fit.resized[1] = target[1] \/ fit.resized[2] = target[2]
        /\ fit.offset[1] <= 0
        /\ fit.offset[2] <= 0
        /\ ~BackgroundVisible(fit)

\* C10: without a display direction, as in every call from process_folder,
\* an image goes to the landscape folder exactly when its canvas is 800x480
\* and to the portrait folder exactly when it is 480x800.
FolderMatchesCanvas ==
    /\ (display_direction = NoDirection /\ output_folder # "") =>
           /\ output_folder = output_folder_landscape
                  <=> quantized_image = LandscapeSize
           /\ output_folder = output_folder_portrait
                  <=> quantized_image = PortraitSize
    /\ entry = "folder" =>
           \A k \in 1..Len(written) :
               /\ written[k].folder = LandscapeFolder(folder_warm)
                      <=> written[k].size = LandscapeSize
               /\ written[k].folder = PortraitFolder(folder_warm)
                      <=> written[k].size = PortraitSize

\* A batch with the warm palette that saved one image in each folder.
FolderMatchesCanvasWitness ==
    /\ entry = "folder"
    /\ folder_warm
    /\ \E k \in 1..Len(written) :
           /\ written[k].folder = "dithered-landscape-warm"
           /\ written[k].size = LandscapeSize
    /\ \E k \in 1..Len(written) :
           /\ written[k].folder = "dithered-portrait-warm"
           /\ written[k].size = PortraitSize

====
